---- MODULE Spec2Model ----
(***************************************************************************)
(* Model of the three scripts of the repository:                           *)
(*   tests/primary_producer/test_ctmi_polynomial.py  (CTMI kernel)         *)
(*   tests/carbonate_engine/generate_reference.py    (reference table)     *)
(*   github-actions/regen_expected_results.py        (field extraction)    *)
(* Real numbers are exact: rationals <<n, d>> with d > 0 in lowest terms   *)
(* for the kernel and the depth interpolation, decimals [m, e] (m * 10^e)  *)
(* for the reference table.  Floating-point rounding is not modelled.      *)
(***************************************************************************)
EXTENDS Integers, Sequences, FiniteSets, TLC

VARIABLES
  \* ---- test_ctmi_polynomial.py
  params,      \* the (Tmin, Topt, Tmax) triple handed to the kernel
  coef,        \* outcome of the last ctmi_coefficients call, or "none"
  evals,       \* T -> outcome of ctmi_eval(T, Tmin, Topt, Tmax), once called
  \* ---- generate_reference.py: generate_reference_cases
  gen_pc,      \* "loop", "write", "done" (returned) or "raised" (exception left the function)
  gen_i,       \* 1-based index of the test vector the for loop is at
  results,     \* the list `results`
  calls,       \* arguments of every pyco2.sys call made, in order
  returns,     \* outcome of every pyco2.sys call made, in order
  csv_file,    \* content of reference_cases.csv: NoFile or a sequence of lines
  \* ---- generate_reference.py: verify_format
  vf_text,     \* the text of the file verify_format opens, a sequence of lines
  vf_pc,       \* "loop", or "done" once verify_format has returned
  vf_pos,      \* 1-based index of the line the for loop is at
  count,       \* the local `count`
  reported,    \* the ERROR messages printed so far: [line, what]
  vf_ret,      \* the value returned
  \* ---- regen_expected_results.py
  model_run,   \* args.model_run: "gotm" or "fabm0d"
  data,        \* the netCDF dataset at data_path: variable name -> array
  run,         \* 1: the script's run; 2: a second run with one field left out
  x_pc,        \* "next_key", "fields", "crashed" (json.dump raised) 
  todo,        \* the (key, items) pairs of data_dict still to come
  key,         \* the loop variable `key`
  items,       \* the loop variable `items`
  idx,         \* 1-based position of `v` in items
  expected_results,  \* the dict expected_results
  log,         \* the "Did not update" messages printed: [key, v, exc]
  files,       \* key -> the JSON document in <dir>/<key>.json
  dropped,     \* run 2: the [key, pos] left out of data_dict, or NoDrop
  run1_files,  \* the files as run 1 left them
  run1_log     \* the messages run 1 printed

kernelVars == <<params, coef, evals>>
genVars == <<gen_pc, gen_i, results, calls, returns, csv_file>>
verifyVars == <<vf_text, vf_pc, vf_pos, count, reported, vf_ret>>
extractVars == <<model_run, data, run, x_pc, todo, key, items, idx, expected_results,
                 log, files, dropped, run1_files, run1_log>>

vars == <<params, coef, evals, gen_pc, gen_i, results, calls, returns, csv_file,
          vf_text, vf_pc, vf_pos, count, reported, vf_ret,
          model_run, data, run, x_pc, todo, key, items, idx, expected_results,
          log, files, dropped, run1_files, run1_log>>

(***************************************************************************)
(* Each specification runs one script; the other scripts' variables rest.  *)
(***************************************************************************)
NoFile == "NoFile"

GenIdle ==
  /\ gen_pc = "idle"
  /\ gen_i = 0
  /\ results = <<>>
  /\ calls = <<>>
  /\ returns = <<>>
  /\ csv_file = NoFile

VerifyIdle ==
  /\ vf_text = <<>>
  /\ vf_pc = "idle"
  /\ vf_pos = 0
  /\ count = 0
  /\ reported = <<>>
  /\ vf_ret = "none"

ExtractIdle ==
  /\ model_run = "none"
  /\ data = <<>>
  /\ run = 0
  /\ x_pc = "idle"
  /\ todo = <<>>
  /\ key = "none"
  /\ items = <<>>
  /\ idx = 0
  /\ expected_results = <<>>
  /\ log = <<>>
  /\ files = <<>>
  /\ dropped = [key |-> "none", pos |-> 0]
  /\ run1_files = <<>>
  /\ run1_log = <<>>

KernelIdle ==
  /\ params = [Tmin |-> 0, Topt |-> 0, Tmax |-> 0]
  /\ coef = [kind |-> "none"]
  /\ evals = <<>>

(***************************************************************************)
(* Exact rational arithmetic.                                              *)
(***************************************************************************)
Abs(x) == IF x < 0 THEN -x ELSE x

RECURSIVE Gcd(_, _)
Gcd(x, y) == IF y = 0 THEN x ELSE Gcd(y, x % y)

\* n / d for d # 0, in lowest terms with a positive denominator
Rat(n, d) ==
  LET g == Gcd(Abs(n), Abs(d))
      s == IF d < 0 THEN -1 ELSE 1
  IN  <<(s * n) \div g, (s * d) \div g>>

RatInt(k) == <<k, 1>>
RatAdd(x, y) == Rat(x[1] * y[2] + y[1] * x[2], x[2] * y[2])
RatSub(x, y) == Rat(x[1] * y[2] - y[1] * x[2], x[2] * y[2])
RatMul(x, y) == Rat(x[1] * y[1], x[2] * y[2])
RatLe(x, y) == x[1] * y[2] <= y[1] * x[2]
RatLt(x, y) == x[1] * y[2] < y[1] * x[2]
RatMin(x, y) == IF RatLt(y, x) THEN y ELSE x
RatMax(x, y) == IF RatLt(x, y) THEN y ELSE x

(***************************************************************************)
(* generate_reference.py: generate_reference_cases.                        *)
(* A decimal [m, e] is the number m * 10^e.                                *)
(***************************************************************************)
RECURSIVE Pow10(_)
Pow10(k) == IF k <= 0 THEN 1 ELSE 10 * Pow10(k - 1)

Dec(m, e) == [m |-> m, e |-> e]
DecMul(x, y) == [m |-> x.m * y.m, e |-> x.e + y.e]
DecEq(x, y) ==
  LET e0 == IF x.e < y.e THEN x.e ELSE y.e
  IN  x.m * Pow10(x.e - e0) = y.m * Pow10(y.e - e0)

RECURSIVE NumDigits(_)
NumDigits(n) == IF n < 10 THEN 1 ELSE 1 + NumDigits(n \div 10)

\* n / 10^k rounded to the nearest integer, ties to even (n >= 0)
RoundDiv10(n, k) ==
  LET p == Pow10(k)
      q == n \div p
      r == n % p
  IN  IF 2 * r > p \/ (2 * r = p /\ q % 2 = 1) THEN q + 1 ELSE q

\* format(x, ".<nd>f"): x to nd decimal places
FmtFixed(x, nd) ==
  IF x.e >= -nd THEN Dec(x.m * Pow10(x.e + nd), -nd)
  ELSE Dec(RoundDiv10(x.m, -nd - x.e), -nd)

\* format(x, ".<nd>e"): x to nd + 1 significant digits
FmtSci(x, nd) ==
  LET drop == NumDigits(x.m) - (nd + 1)
  IN  IF drop <= 0 THEN x ELSE Dec(RoundDiv10(x.m, drop), x.e + drop)

\* TEST_CASES: (T, S, DIC_mol/kg, TA_mol/kg)
TestCase(T, S, DIC, TA) ==
  [T |-> Dec(T, -1), S |-> Dec(S, -1), DIC |-> Dec(DIC, -6), TA |-> Dec(TA, -6)]

TEST_CASES == <<
  TestCase(250, 350, 2100, 2300), TestCase(250, 350, 2000, 2200),
  TestCase(250, 350, 2200, 2400), TestCase(150, 350, 2100, 2300),
  TestCase(150, 350, 2000, 2200), TestCase(100, 300, 2050, 2250),
  TestCase(200, 320, 2100, 2350), TestCase(250, 340, 1900, 2100),
  TestCase(180, 330, 2150, 2380), TestCase(220, 360, 2080, 2280),
  TestCase(50, 280, 2000, 2200),  TestCase(300, 380, 2100, 2300),
  TestCase(200, 250, 1800, 2000), TestCase(250, 280, 1900, 2100),
  TestCase(150, 300, 2000, 2150) >>

\* the loop is followed over the first MaxCases vectors of TEST_CASES
MaxCases == 3
Cases == SubSeq(TEST_CASES, 1, IF MaxCases < Len(TEST_CASES) THEN MaxCases ELSE Len(TEST_CASES))

PYCO2_KWARGS ==
  [opt_k_carbonic |-> 10, opt_k_bisulfate |-> 1, opt_k_fluoride |-> 2,
   opt_total_borate |-> 2, opt_pH_scale |-> 1]

\* what pyco2.sys can do with a call: raise, or return pH_total and pCO2 (uatm)
SolverOutcomes ==
  {[kind |-> "raise"]} \cup
  {[kind |-> "return", pH_total |-> ph, pCO2 |-> pc] :
     ph \in {Dec(80512, -4), Dec(79, -1)},
     pc \in {Dec(4005, -1), Dec(412345, -3)}}

\* a variant with the two solver parameters swapped
SolverArgs_swapped(c) ==
  [par1 |-> DecMul(c.DIC, Dec(1, 6)), par2 |-> DecMul(c.TA, Dec(1, 6)),
   par1_type |-> 1, par2_type |-> 2,
   temperature |-> c.T, salinity |-> c.S, pressure |-> 0, kwargs |-> PYCO2_KWARGS]

\* DIC_umolkg, TA_umolkg and the arguments of pyco2.sys
SolverArgs(c) ==
  LET DIC_umolkg == DecMul(c.DIC, Dec(1, 6))
      TA_umolkg == DecMul(c.TA, Dec(1, 6))
  IN  [par1 |-> TA_umolkg, par2 |-> DIC_umolkg,
       par1_type |-> 1, par2_type |-> 2,
       temperature |-> c.T, salinity |-> c.S, pressure |-> 0, kwargs |-> PYCO2_KWARGS]

\* the dict appended to results
ResultRow(c, result) ==
  LET pH_total == result.pH_total
      pCO2_uatm == result.pCO2
      pCO2_atm == DecMul(pCO2_uatm, Dec(1, -6))
  IN  [T |-> c.T, S |-> c.S, DIC_molkg |-> c.DIC, TA_molkg |-> c.TA,
       pH_total |-> pH_total, pCO2_atm |-> pCO2_atm]

\* one line of the table written for a row of results
CsvRow(r) ==
  [kind |-> "row",
   fields |-> <<r.T, r.S, FmtFixed(r.DIC_molkg, 6), FmtFixed(r.TA_molkg, 6),
                FmtFixed(r.pH_total, 3), FmtSci(r.pCO2_atm, 3)>>]

NumHeaderLines == 5
CsvHeader == [k \in 1..NumHeaderLines |-> [kind |-> "comment", n |-> k]]

InitGen ==
  /\ gen_pc = "loop"
  /\ gen_i = 1
  /\ results = <<>>
  /\ calls = <<>>
  /\ returns = <<>>
  /\ csv_file = NoFile
  /\ KernelIdle
  /\ VerifyIdle
  /\ ExtractIdle

\* one iteration of `for T, S, DIC_molkg, TA_molkg in TEST_CASES`
LoopBody ==
  /\ gen_pc = "loop"
  /\ gen_i <= Len(Cases)
  /\ \E result \in SolverOutcomes :
       /\ calls' = Append(calls, SolverArgs(Cases[gen_i]))
       /\ returns' = Append(returns, result)
       /\ IF result.kind = "raise"
          THEN \* nothing catches the exception: it leaves the function
               /\ gen_pc' = "raised"
               /\ UNCHANGED <<gen_i, results>>
          ELSE /\ results' = Append(results, ResultRow(Cases[gen_i], result))
               /\ gen_i' = gen_i + 1
               /\ UNCHANGED gen_pc
  /\ UNCHANGED <<csv_file, kernelVars, verifyVars, extractVars>>

\* after the loop: write the table and return results
WriteCsv ==
  /\ gen_pc = "loop"
  /\ gen_i > Len(Cases)
  /\ csv_file' = CsvHeader \o [k \in 1..Len(results) |-> CsvRow(results[k])]
  /\ gen_pc' = "done"
  /\ UNCHANGED <<gen_i, results, calls, returns, kernelVars, verifyVars, extractVars>>

NextGen == LoopBody \/ WriteCsv

SpecGen == InitGen /\ [][NextGen]_vars

FailedAt == {k \in 1..Len(returns) : returns[k].kind = "raise"}

\* the table on disk holds a row for test vector k
RowPersisted(k) ==
  /\ csv_file # NoFile
  /\ \E n \in 1..Len(csv_file) :
       /\ csv_file[n].kind = "row"
       /\ DecEq(csv_file[n].fields[1], Cases[k].T)
       /\ DecEq(csv_file[n].fields[2], Cases[k].S)
       /\ DecEq(csv_file[n].fields[3], Cases[k].DIC)
       /\ DecEq(csv_file[n].fields[4], Cases[k].TA)

\* C2: when generate_reference_cases has ended, every test vector whose solver
\* call did not fail has been evaluated and its row is in the reference table.
C2_FailureAbortsOnlyThatCase ==
  gen_pc \in {"done", "raised"} =>
    \A k \in 1..Len(Cases) :
      k \notin FailedAt => (k <= Len(calls) /\ RowPersisted(k))

\* C10: every solver call gets TA * 1e6 as parameter 1 (type 1) and DIC * 1e6
\* as parameter 2 (type 2); every recorded row holds the vector's DIC and TA
\* in mol/kg unchanged and the solver's pCO2 times 1e-6; rows come in the
\* order of TEST_CASES, one per vector, and are written in that order.
C10_UnitBridge ==
  /\ \A k \in 1..Len(calls) :
       /\ calls[k].par1_type = 1
       /\ calls[k].par2_type = 2
       /\ DecEq(calls[k].par1, Dec(Cases[k].TA.m, Cases[k].TA.e + 6))
       /\ DecEq(calls[k].par2, Dec(Cases[k].DIC.m, Cases[k].DIC.e + 6))
  /\ Len(results) <= Len(Cases)
  /\ \A k \in 1..Len(results) :
       /\ results[k].T = Cases[k].T
       /\ results[k].S = Cases[k].S
       /\ results[k].DIC_molkg = Cases[k].DIC
       /\ results[k].TA_molkg = Cases[k].TA
       /\ returns[k].kind = "return"
       /\ DecEq(Dec(results[k].pCO2_atm.m, results[k].pCO2_atm.e + 6), returns[k].pCO2)
  /\ gen_pc = "done" =>
       /\ Len(results) = Len(Cases)
       /\ Len(csv_file) = NumHeaderLines + Len(Cases)
       /\ \A k \in 1..Len(Cases) :
            LET line == csv_file[NumHeaderLines + k]
            IN  /\ line.kind = "row"
                /\ DecEq(line.fields[3], Cases[k].DIC)
                /\ DecEq(line.fields[4], Cases[k].TA)
                /\ line.fields[6] = FmtSci(Dec(returns[k].pCO2.m, returns[k].pCO2.e - 6), 3)

\* the function returned after converting at least two vectors, one of them
\* with a pCO2 the table rounds
C10_Witness ==
  /\ gen_pc = "done"
  /\ Len(results) >= 2
  /\ \E k \in 1..Len(results) : returns[k].pCO2 = Dec(412345, -3)
  /\ \E k \in 1..Len(results) :
       csv_file[NumHeaderLines + k].fields[6] = Dec(4123, -7)

(***************************************************************************)
(* generate_reference.py: verify_format.                                   *)
(* A line is a sequence of tokens: "n" a number literal, "x" any other     *)
(* word, "," a comma, "#" a hash sign, " " white space.                    *)
(***************************************************************************)
RECURSIVE lstrip(_)
lstrip(l) == IF l # <<>> /\ Head(l) = " " THEN lstrip(Tail(l)) ELSE l

RECURSIVE rstrip(_)
rstrip(l) ==
  IF l # <<>> /\ l[Len(l)] = " " THEN rstrip(SubSeq(l, 1, Len(l) - 1)) ELSE l

\* str.strip()
strip(l) == rstrip(lstrip(l))

\* str.startswith('#')
startswith_hash(l) == l # <<>> /\ Head(l) = "#"

\* str.split(','): the list of parts, cur being the part under construction
RECURSIVE split_from(_, _)
split_from(l, cur) ==
  IF l = <<>> THEN <<cur>>
  ELSE IF Head(l) = "," THEN <<cur>> \o split_from(Tail(l), <<>>)
  ELSE split_from(Tail(l), Append(cur, Head(l)))

split(l) == split_from(l, <<>>)

\* float(part) succeeds (white space around the literal is accepted)
float_ok(part) == strip(part) = <<"n">>

\* what one pass of the loop body does with a line:
\* "skip" (blank or comment), "columns", "value" (ValueError) or "ok"
CheckLine(raw) ==
  LET line == strip(raw)
      parts == split(line)
  IN  IF line = <<>> \/ startswith_hash(line) THEN "skip"
      ELSE IF Len(parts) # 6 THEN "columns"
      ELSE IF \E k \in 1..6 : ~float_ok(parts[k]) THEN "value"
      ELSE "ok"

RECURSIVE Join(_)
Join(fields) ==
  IF Len(fields) = 0 THEN <<>>
  ELSE IF Len(fields) = 1 THEN fields[1]
  ELSE fields[1] \o <<",">> \o Join(Tail(fields))

Num == <<"n">>
SampleLines ==
  { Join(<<Num, Num, Num, Num, Num, Num>>),
    <<" ">> \o Join(<<Num, <<" ", "n">>, Num, Num, <<"n", " ">>, Num>>) \o <<" ">>,
    Join(<<Num, Num, Num, Num, Num>>),
    Join(<<Num, Num, Num, Num, Num, Num, Num>>),
    Join(<<Num, Num, <<"x">>, Num, Num, Num>>),
    Join(<<Num, Num, <<>>, Num, Num, Num>>),
    Join(<<Num, <<"n", " ", "n">>, Num, Num, Num, Num>>),
    <<>>,
    <<" ">>,
    <<"#", "x">>,
    <<" ", "#">> \o Join(<<Num, Num, Num, Num, Num, Num>>),
    <<"x">> }

MaxLines == 3

RECURSIVE SeqsUpTo(_, _)
SeqsUpTo(S, n) ==
  IF n = 0 THEN {<<>>}
  ELSE LET shorter == SeqsUpTo(S, n - 1)
       IN  shorter \cup {Append(q, x) : q \in {r \in shorter : Len(r) = n - 1}, x \in S}

InitVerify ==
  /\ vf_text \in SeqsUpTo(SampleLines, MaxLines)
  /\ vf_pc = "loop"
  /\ vf_pos = 1
  /\ count = 0
  /\ reported = <<>>
  /\ vf_ret = "none"
  /\ KernelIdle
  /\ GenIdle
  /\ ExtractIdle

\* a variant in which a line with the wrong number of columns ends the loop
VerifyLine_break ==
  /\ vf_pc = "loop"
  /\ vf_pos <= Len(vf_text)
  /\ LET what == CheckLine(vf_text[vf_pos])
     IN  /\ count' = IF what = "ok" THEN count + 1 ELSE count
         /\ reported' = IF what \in {"columns", "value"}
                        THEN Append(reported, [line |-> vf_pos, what |-> what])
                        ELSE reported
         /\ vf_pos' = IF what = "columns" THEN Len(vf_text) + 1 ELSE vf_pos + 1
  /\ UNCHANGED <<vf_text, vf_pc, vf_ret, kernelVars, genVars, extractVars>>

\* one iteration of `for line in f`
VerifyLine ==
  /\ vf_pc = "loop"
  /\ vf_pos <= Len(vf_text)
  /\ LET what == CheckLine(vf_text[vf_pos])
     IN  /\ count' = IF what = "ok" THEN count + 1 ELSE count
         /\ reported' = IF what \in {"columns", "value"}
                        THEN Append(reported, [line |-> vf_pos, what |-> what])
                        ELSE reported
  /\ vf_pos' = vf_pos + 1
  /\ UNCHANGED <<vf_text, vf_pc, vf_ret, kernelVars, genVars, extractVars>>

\* end of file: return count > 0
VerifyReturn ==
  /\ vf_pc = "loop"
  /\ vf_pos > Len(vf_text)
  /\ vf_ret' = (count > 0)
  /\ vf_pc' = "done"
  /\ UNCHANGED <<vf_text, vf_pos, count, reported, kernelVars, genVars, extractVars>>

NextVerify == VerifyLine \/ VerifyReturn

SpecVerify == InitVerify /\ [][NextVerify]_vars

\* a data line: not blank and not a comment once surrounding space is removed
IsDataLine(raw) ==
  \E k \in 1..Len(raw) :
    /\ raw[k] # " "
    /\ \A j \in 1..(k - 1) : raw[j] = " "
    /\ raw[k] # "#"

\* exactly five commas, and between them six fields that are one number each
WellFormed(raw) ==
  /\ IsDataLine(raw)
  /\ LET commas == {k \in 1..Len(raw) : raw[k] = ","}
         Numeric(lo, hi) ==   \* raw[lo..hi] is white space around one "n"
           \E k \in lo..hi :
             /\ raw[k] = "n"
             /\ \A j \in (lo..hi) \ {k} : raw[j] = " "
         FieldStart(c) == IF c = 0 THEN 1 ELSE c + 1
         FieldEnd(c) ==
           LET later == {d \in commas : d > c}
           IN  IF later = {} THEN Len(raw)
               ELSE (CHOOSE d \in later : \A d2 \in later : d <= d2) - 1
     IN  /\ Cardinality(commas) = 5
         /\ \A c \in commas \cup {0} : Numeric(FieldStart(c), FieldEnd(c))

Malformed(raw) == IsDataLine(raw) /\ ~WellFormed(raw)

\* C9: verify_format examines every line; each malformed data line before the
\* loop position has been reported once, in order, and is not counted; count is
\* the number of well-formed data lines seen; the function returns after the
\* last line, with TRUE exactly when count > 0.
C9_MalformedLineNotFatal ==
  LET seen == 1..(vf_pos - 1)
      bad == {k \in seen : Malformed(vf_text[k])}
  IN  /\ vf_pc \in {"loop", "done"}
      /\ vf_pos <= Len(vf_text) + 1
      /\ count = Cardinality({k \in seen : WellFormed(vf_text[k])})
      /\ {reported[n].line : n \in 1..Len(reported)} = bad
      /\ Len(reported) = Cardinality(bad)
      /\ \A n, m \in 1..Len(reported) : n < m => reported[n].line < reported[m].line
      /\ vf_pc = "done" =>
           /\ vf_pos = Len(vf_text) + 1
           /\ vf_ret = (count > 0)

\* a malformed line was reported and a later well-formed line still counted
C9_Witness ==
  /\ vf_pc = "done"
  /\ vf_ret = TRUE
  /\ \E n \in 1..Len(reported) :
       \E k \in 1..Len(vf_text) : reported[n].line < k /\ WellFormed(vf_text[k])
  /\ \E n \in 1..Len(reported) : reported[n].what = "columns"

(***************************************************************************)
(* test_ctmi_polynomial.py: the polynomial CTMI kernel.                    *)
(***************************************************************************)
MaxTemp == 6
Temps == 0..MaxTemp

ZeroDivisionError == [kind |-> "raise", exc |-> "ZeroDivisionError"]

\* a variant that forgets to square the product a*b
ctmi_coefficients_nosquare(Tmin, Topt, Tmax) ==
  LET a == Topt - Tmin
      b == Topt - Tmax
      ab2 == a * b
  IN  IF ab2 = 0 THEN ZeroDivisionError
      ELSE [kind |-> "return",
            ctmi_a |-> Rat(-(a + b), ab2),
            ctmi_b |-> Rat(a * b + (a + b) * Topt, ab2)]

\* a variant that drops the minus sign of ctmi_a
ctmi_coefficients_sign(Tmin, Topt, Tmax) ==
  LET a == Topt - Tmin
      b == Topt - Tmax
      ab2 == (a * b) * (a * b)
  IN  IF ab2 = 0 THEN ZeroDivisionError
      ELSE [kind |-> "return",
            ctmi_a |-> Rat(a + b, ab2),
            ctmi_b |-> Rat(a * b + (a + b) * Topt, ab2)]

\* def ctmi_coefficients(Tmin, Topt, Tmax)
ctmi_coefficients(Tmin, Topt, Tmax) ==
  LET a == Topt - Tmin
      b == Topt - Tmax
      ab2 == (a * b) * (a * b)
  IN  IF ab2 = 0 THEN ZeroDivisionError          \* float division by zero
      ELSE [kind |-> "return",
            ctmi_a |-> Rat(-(a + b), ab2),
            ctmi_b |-> Rat(a * b + (a + b) * Topt, ab2)]

\* et = (T - Tmin) * (T - Tmax) * (ctmi_a * T + ctmi_b)
ctmi_et(T, Tmin, Tmax, c) ==
  RatMul(RatInt((T - Tmin) * (T - Tmax)),
         RatAdd(RatMul(c.ctmi_a, RatInt(T)), c.ctmi_b))

\* def ctmi_eval(T, Tmin, Topt, Tmax)
ctmi_eval(T, Tmin, Topt, Tmax) ==
  IF T <= Tmin \/ T >= Tmax
  THEN [kind |-> "return", clamped |-> FALSE, et |-> RatInt(0), val |-> RatInt(0)]
  ELSE LET c == ctmi_coefficients(Tmin, Topt, Tmax)
       IN  IF c.kind = "raise" THEN c
           ELSE LET et == ctmi_et(T, Tmin, Tmax, c)
                IN  [kind |-> "return", clamped |-> TRUE, et |-> et,
                     val |-> RatMax(RatInt(0), RatMin(RatInt(1), et))]

InitKernel ==
  /\ params \in [Tmin : Temps, Topt : Temps, Tmax : Temps]
  /\ coef = [kind |-> "none"]
  /\ evals = <<>>
  /\ GenIdle
  /\ VerifyIdle
  /\ ExtractIdle

\* a call of ctmi_coefficients (the "initialize" step)
Coefficients ==
  /\ coef.kind = "none"
  /\ coef' = ctmi_coefficients(params.Tmin, params.Topt, params.Tmax)
  /\ UNCHANGED <<params, evals, genVars, verifyVars, extractVars>>

\* a call of ctmi_eval at temperature T
Eval(T) ==
  /\ T \notin DOMAIN evals
  /\ evals' = (T :> ctmi_eval(T, params.Tmin, params.Topt, params.Tmax)) @@ evals
  /\ UNCHANGED <<params, coef, genVars, verifyVars, extractVars>>

NextKernel ==
  \/ Coefficients
  \/ \E T \in Temps : Eval(T)

SpecKernel == InitKernel /\ [][NextKernel]_vars

Ordered == params.Tmin < params.Topt /\ params.Topt < params.Tmax
Inside(T) == params.Tmin < T /\ T < params.Tmax
Val(T) == evals[T].val

\* C4: with Tmin >= Topt or Topt >= Tmax, ctmi_coefficients and every
\* ctmi_eval call end in a domain error and never return a number.
C4_FailFast ==
  ~Ordered =>
    /\ coef.kind # "return"
    /\ \A T \in DOMAIN evals : evals[T].kind = "raise"

\* C5: for an ordered triple and T strictly inside (Tmin, Tmax) the unclamped
\* cubic et already lies in [0, 1], so the clamp leaves it unchanged.
C5_UnclampedInUnitInterval ==
  Ordered =>
    \A T \in DOMAIN evals :
      Inside(T) =>
        /\ evals[T].kind = "return"
        /\ RatLe(RatInt(0), evals[T].et)
        /\ RatLe(evals[T].et, RatInt(1))
        /\ evals[T].val = evals[T].et

\* C6: for an ordered triple ctmi_eval is non-decreasing on (Tmin, Topt],
\* non-increasing on [Topt, Tmax), and nowhere on [Tmin, Tmax] above its
\* value at Topt.
C6_Unimodal ==
  Ordered =>
    /\ \A T \in DOMAIN evals : evals[T].kind = "return"
    /\ \A T1, T2 \in DOMAIN evals :
         T1 <= T2 =>
           /\ (params.Tmin < T1 /\ T2 <= params.Topt) => RatLe(Val(T1), Val(T2))
           /\ (params.Topt <= T1 /\ T2 < params.Tmax) => RatLe(Val(T2), Val(T1))
    /\ params.Topt \in DOMAIN evals =>
         \A T \in DOMAIN evals :
           (params.Tmin <= T /\ T <= params.Tmax) => RatLe(Val(T), Val(params.Topt))

\* both flanks have been sampled at two points with different values
C6_Witness ==
  /\ Ordered
  /\ params.Topt \in DOMAIN evals
  /\ \E T1, T2 \in DOMAIN evals :
       /\ params.Tmin < T1 /\ T1 < T2 /\ T2 <= params.Topt
       /\ RatLt(Val(T1), Val(T2))
  /\ \E T1, T2 \in DOMAIN evals :
       /\ params.Topt <= T1 /\ T1 < T2 /\ T2 < params.Tmax
       /\ RatLt(Val(T2), Val(T1))

\* C7: for an ordered triple, wherever Topt lies, the divisor is not zero and
\* the cubic at Topt is exactly 1, so ctmi_eval(Topt) = 1.
C7_OneAtTopt ==
  Ordered =>
    /\ coef.kind # "raise"
    /\ params.Topt \in DOMAIN evals =>
         /\ evals[params.Topt].kind = "return"
         /\ evals[params.Topt].et = RatInt(1)
         /\ evals[params.Topt].val = RatInt(1)

\* Topt off the midpoint, coefficients computed and ctmi_eval(Topt) called
C7_Witness ==
  /\ Ordered
  /\ 2 * params.Topt > params.Tmin + params.Tmax + 1
  /\ coef.kind = "return"
  /\ params.Topt \in DOMAIN evals

(***************************************************************************)
(* regen_expected_results.py.                                              *)
(* An array is [shape, flat]: its dimensions and its values in row-major   *)
(* order.  Positions are 1-based here where Python's are 0-based.          *)
(***************************************************************************)
RECURSIVE Product(_)
Product(q) == IF q = <<>> THEN 1 ELSE Head(q) * Product(Tail(q))

Arr(shape, flat) == [shape |-> shape, flat |-> flat]
ndim(a) == Len(a.shape)

RECURSIVE DropOnes(_)
DropOnes(q) ==
  IF q = <<>> THEN <<>>
  ELSE IF Head(q) = 1 THEN DropOnes(Tail(q))
  ELSE <<Head(q)>> \o DropOnes(Tail(q))

\* ndarray.squeeze(): the axes of length 1 are dropped
squeeze(a) == Arr(DropOnes(a.shape), a.flat)

\* a[i] (also a[i, :]) for an array of at least one dimension
Row(a, i) ==
  LET n == Product(Tail(a.shape))
  IN  Arr(Tail(a.shape), SubSeq(a.flat, (i - 1) * n + 1, i * n))

\* a[-1] (also a[-1, :])
LastRow(a) == Row(a, a.shape[1])

Ok(v) == [ok |-> TRUE, val |-> v]
Raise(exc) == [ok |-> FALSE, exc |-> exc]

(***************************************************************************)
(* numpy.interp(x, xp, fp) for a scalar x, as numpy's arr_interp computes  *)
(* it: no check that xp increases.  Indices below are numpy's 0-based j.   *)
(***************************************************************************)
LIKELY_IN_CACHE_SIZE == 8

RECURSIVE linear_search(_, _, _)
linear_search(k, arr, i) ==      \* for (i = 1; i < len && key >= arr[i]; ++i)
  IF i < Len(arr) /\ k >= arr[i + 1] THEN linear_search(k, arr, i + 1) ELSE i

RECURSIVE bisect(_, _, _, _)
bisect(k, arr, imin, imax) ==    \* while (imin < imax) ...; return imin - 1
  IF imin < imax
  THEN LET imid == imin + ((imax - imin) \div 2)
       IN  IF k >= arr[imid + 1] THEN bisect(k, arr, imid + 1, imax)
           ELSE bisect(k, arr, imin, imid)
  ELSE imin - 1

binary_search_with_guess(k, arr, guess0) ==
  LET len == Len(arr)
      g1 == IF guess0 > len - 3 THEN len - 3 ELSE guess0
      guess == IF g1 < 1 THEN 1 ELSE g1
  IN  IF k > arr[len] THEN len
      ELSE IF k < arr[1] THEN -1
      ELSE IF len <= 4 THEN linear_search(k, arr, 1) - 1
      ELSE IF k < arr[guess + 1]
           THEN IF k < arr[guess]
                THEN bisect(k, arr,
                            IF guess > LIKELY_IN_CACHE_SIZE
                               /\ k >= arr[guess - LIKELY_IN_CACHE_SIZE + 1]
                            THEN guess - LIKELY_IN_CACHE_SIZE ELSE 0,
                            guess - 1)
                ELSE guess - 1
           ELSE IF k < arr[guess + 2] THEN guess
                ELSE IF k < arr[guess + 3] THEN guess + 1
                ELSE bisect(k, arr, guess + 2,
                            IF guess < len - LIKELY_IN_CACHE_SIZE - 1
                               /\ k < arr[guess + LIKELY_IN_CACHE_SIZE + 1]
                            THEN guess + LIKELY_IN_CACHE_SIZE ELSE len)

\* x, xp[k], fp[k] are integers; the value is a rational
interp(x, xp, fp) ==
  IF ndim(fp) # 1 \/ ndim(xp) # 1 THEN Raise("ValueError")   \* wrong depth
  ELSE IF xp.shape[1] = 0 THEN Raise("ValueError")             \* no sample points
  ELSE IF xp.shape[1] # fp.shape[1] THEN Raise("ValueError")   \* lengths differ
  ELSE LET dx == xp.flat
           dy == fp.flat
           lenxp == Len(dx)
       IN  IF lenxp = 1
           THEN Ok(RatInt(dy[1]))
           ELSE LET j == binary_search_with_guess(x, dx, 0)
                IN  IF j = -1 THEN Ok(RatInt(dy[1]))
                    ELSE IF j = lenxp THEN Ok(RatInt(dy[lenxp]))
                    ELSE IF j = lenxp - 1 THEN Ok(RatInt(dy[j + 1]))
                    ELSE IF dx[j + 1] = x THEN Ok(RatInt(dy[j + 1]))
                    ELSE \* slope * (x - dx[j]) + dy[j]
                         Ok(RatAdd(RatMul(Rat(dy[j + 2] - dy[j + 1], dx[j + 2] - dx[j + 1]),
                                          RatInt(x - dx[j + 1])),
                                   RatInt(dy[j + 1])))

(***************************************************************************)
(* The fields each model run extracts.                                     *)
(***************************************************************************)
state_vars == <<
  "N1_p", "N3_n", "N4_n", "N5_s", "O2_o", "O3_c", "O3_bioalk", "R1_c", "R1_n",
  "R1_p", "R2_c", "R3_c", "R4_c", "R4_n", "R4_p", "R6_c", "R6_n", "R6_p",
  "R6_s", "R8_c", "R8_n", "R8_p", "R8_s", "B1_c", "B1_n", "B1_p", "P1_c",
  "P1_n", "P1_p", "P1_Chl", "P1_s", "P2_c", "P2_n", "P2_p", "P2_Chl", "P3_c",
  "P3_n", "P3_p", "P3_Chl", "P4_c", "P4_n", "P4_p", "P4_Chl", "Z4_c", "Z5_c",
  "Z5_n", "Z5_p", "Z6_c", "Z6_n", "Z6_p", "L2_c", "Q1_c", "Q1_p", "Q1_n",
  "Q6_c", "Q6_p", "Q6_n", "Q6_s", "Q6_pen_depth_c", "Q6_pen_depth_n",
  "Q6_pen_depth_p", "Q6_pen_depth_s", "Q7_c", "Q7_p", "Q7_n", "Q7_pen_depth_c",
  "Q7_pen_depth_n", "Q7_pen_depth_p", "Q17_c", "Q17_p", "Q17_n", "bL2_c",
  "ben_col_D1m", "ben_col_D2m", "K1_p", "K3_n", "K4_n", "K5_s", "G2_o",
  "G2_o_deep", "G3_c", "ben_nit_G4n", "H1_c", "H2_c", "Y2_c", "Y3_c",
  "Y4_c" >>

vars_of_interest_gotm == <<"dates", "N1_p", "N3_n", "N5_s">>

vars_of_interest_fabm0d ==
  <<"dates", "light_parEIR", "temp", "salt", "N1_p", "N3_n", "B1_c", "P2_c">>

\* each list is followed over its first MaxBatch names
MaxBatch == 3
Batch(list) == SubSeq(list, 1, IF MaxBatch < Len(list) THEN MaxBatch ELSE Len(list))

\* data_dict, in the order its items() come
data_dict(mr) ==
  IF mr = "gotm"
  THEN << [key |-> "expected", items |-> Batch(vars_of_interest_gotm)],
          [key |-> "expected_state", items |-> Batch(state_vars)] >>
  ELSE << [key |-> "expected", items |-> Batch(vars_of_interest_fabm0d)] >>

Range(q) == {q[k] : k \in 1..Len(q)}

FieldNames(mr) ==
  (UNION {Range(data_dict(mr)[n].items) : n \in 1..Len(data_dict(mr))}) \ {"dates"}

(***************************************************************************)
(* The dataset: NumTimes time steps, NumLayers layers (one in fabm0d).     *)
(***************************************************************************)
NumTimes == 2
NumLayers == 3
MaxDepth == 3

AllNames == state_vars \o <<"light_parEIR", "temp", "salt">>
Code(v) == CHOOSE n \in 1..Len(AllNames) : AllNames[n] = v

\* the value of field v at time step i, layer k
FieldValue(v, i, k) == 100 * Code(v) + 10 * i + k * k

\* row-major values of a (NumTimes x nlev) field
FieldFlat(v, nlev) ==
  [n \in 1..(NumTimes * nlev) |->
     FieldValue(v, ((n - 1) \div nlev) + 1, ((n - 1) % nlev) + 1)]

\* how a field can sit in the dataset
FieldArray(mr, v, status) ==
  CASE status = "rank2" -> Arr(<<NumTimes, NumLayers>>, FieldFlat(v, NumLayers))
    [] status = "rank3" -> Arr(<<NumTimes, 1, 1>>, FieldFlat(v, 1))
    [] status = "rank4" ->
         IF mr = "gotm" THEN Arr(<<NumTimes, NumLayers, 1, 1>>, FieldFlat(v, NumLayers))
         ELSE Arr(<<NumTimes, 1, 1, 1>>, FieldFlat(v, 1))
    [] status = "rank4_layers_off" ->
         Arr(<<NumTimes, NumLayers + 1, 1, 1>>, FieldFlat(v, NumLayers + 1))

Statuses(mr) ==
  IF mr = "gotm" THEN {"missing", "rank2", "rank3", "rank4", "rank4_layers_off"}
  ELSE {"missing", "rank2", "rank3", "rank4"}

\* the time axis: hours since the epoch; units is the number of them in a day
TimeVar ==
  [shape |-> <<NumTimes>>, flat |-> [i \in 1..NumTimes |-> 36 * i], units |-> 24]

\* a depth grid: the layer centres of time step 1, the last interface of time
\* step 1, and how far both move per time step
ZVar(g) ==
  Arr(<<NumTimes, NumLayers, 1, 1>>,
      [n \in 1..(NumTimes * NumLayers) |->
         g.zrow[((n - 1) % NumLayers) + 1] + ((n - 1) \div NumLayers) * g.dz])

ZiVar(g) ==
  Arr(<<NumTimes, NumLayers + 1, 1, 1>>,
      [n \in 1..(NumTimes * (NumLayers + 1)) |->
         LET i == ((n - 1) \div (NumLayers + 1)) + 1
             j == ((n - 1) % (NumLayers + 1)) + 1
         IN  g.q + (i - 1) * g.dq - (NumLayers + 1 - j)])

\* GOTM's grid: centres rise towards the surface, the last interface is the surface
GotmGrid ==
  [zrow |-> [k \in 1..NumLayers |-> -(2 * (NumLayers - k) + 1)], q |-> 0, dz |-> 0, dq |-> 0]

StrictlyIncreasing(r) == \A k \in 1..(Len(r) - 1) : r[k] < r[k + 1]
StrictlyDecreasing(r) == \A k \in 1..(Len(r) - 1) : r[k] > r[k + 1]

MonotoneGrids ==
  {[zrow |-> r, q |-> q, dz |-> dz, dq |-> dq] :
     r \in {f \in [1..NumLayers -> (-MaxDepth)..0] :
              StrictlyIncreasing(f) \/ StrictlyDecreasing(f)},
     q \in (-MaxDepth - 1)..1, dz \in {0, 1}, dq \in {-1, 0, 1}}

Dataset(mr, status, hasTime, g) ==
  LET present == {v \in FieldNames(mr) : status[v] # "missing"}
      fields == [v \in present |-> FieldArray(mr, v, status[v])]
      time == IF hasTime THEN ("time" :> TimeVar) ELSE <<>>
      grid == IF mr = "gotm" THEN ("z" :> ZVar(g)) @@ ("zi" :> ZiVar(g)) ELSE <<>>
  IN  fields @@ time @@ grid

(***************************************************************************)
(* What the try block computes for one field v.                            *)
(***************************************************************************)
ListEntry(q) == [type |-> "list", items |-> q]
FloatEntry(x) == [type |-> "float", val |-> x]
NdEntry(a) == [type |-> "ndarray", shape |-> a.shape, flat |-> a.flat]

\* nc.num2date, then str(d).split(" ")[0]: the date part of "<date> <time of day>"
num2date(t, units) == [date |-> t \div units, timeofday |-> t % units]
DateString(d) == <<d.date, " ", d.timeofday>>
BeforeSpace(text) == text[1]

ExtractDates(d) ==
  IF "time" \notin DOMAIN d THEN Raise("KeyError")
  ELSE LET times == d["time"]
       IN  Ok(ListEntry([i \in 1..Len(times.flat) |->
                           BeforeSpace(DateString(num2date(times.flat[i], times.units)))]))

\* a variant that interpolates against the first time step's layer centres
InterpAt_firstrow(var, zi, z, i) ==
  LET depth == 0
  IN  IF ndim(zi) # 2 \/ i > zi.shape[1] THEN Raise("IndexError")
      ELSE IF ndim(z) # 2 \/ i > z.shape[1] THEN Raise("IndexError")
      ELSE IF ndim(var) < 2 THEN Raise("IndexError")
      ELSE LET depth_offset == depth + Row(zi, i).flat[zi.shape[2]]
           IN  interp(depth_offset, Row(z, 1), squeeze(Row(var, i)))

\* a variant that anchors the query to the first interface, zi[i, 0]
InterpAt_firstinterface(var, zi, z, i) ==
  LET depth == 0
  IN  IF ndim(zi) # 2 \/ i > zi.shape[1] THEN Raise("IndexError")
      ELSE IF ndim(z) # 2 \/ i > z.shape[1] THEN Raise("IndexError")
      ELSE IF ndim(var) < 2 THEN Raise("IndexError")
      ELSE LET depth_offset == depth + Row(zi, i).flat[1]
           IN  interp(depth_offset, Row(z, i), squeeze(Row(var, i)))

\* one pass of `for i in range(var.shape[0])`
InterpAt(var, zi, z, i) ==
  LET depth == 0
  IN  IF ndim(zi) # 2 \/ i > zi.shape[1] THEN Raise("IndexError")          \* zi[i, -1]
      ELSE IF ndim(z) # 2 \/ i > z.shape[1] THEN Raise("IndexError")       \* z[i, :]
      ELSE IF ndim(var) < 2 THEN Raise("IndexError")                       \* var[i, :]
      ELSE LET depth_offset == depth + Row(zi, i).flat[zi.shape[2]]
           IN  interp(depth_offset, Row(z, i), squeeze(Row(var, i)))

ExtractDepth(d, v) ==
  IF v \notin DOMAIN d THEN Raise("KeyError")
  ELSE IF "zi" \notin DOMAIN d \/ "z" \notin DOMAIN d THEN Raise("KeyError")
  ELSE LET var == d[v]
           zi == squeeze(d["zi"])
           z == squeeze(d["z"])
           steps == [i \in 1..var.shape[1] |-> InterpAt(var, zi, z, i)]
           failed == {i \in DOMAIN steps : ~steps[i].ok}
       IN  IF failed # {}
           THEN steps[CHOOSE i \in failed : \A j \in failed : i <= j]
           ELSE Ok(ListEntry([i \in DOMAIN steps |-> steps[i].val]))

\* expected_results[v][-1, :] on what is already stored under v
StoredLastSlice(er, v) ==
  IF v \notin DOMAIN er THEN Raise("KeyError")
  ELSE IF er[v].type # "ndarray" THEN Raise("TypeError")
  ELSE IF Len(er[v].shape) < 2 THEN Raise("IndexError")
  ELSE Ok(NdEntry(LastRow(er[v])))

\* float(a) of an array: only an array of one element converts
ToFloat(a) == IF Product(a.shape) = 1 THEN Ok(FloatEntry(a.flat[1])) ELSE Raise("TypeError")

ExtractByRank(mr, d, er, v) ==
  IF v \notin DOMAIN d THEN Raise("KeyError")
  ELSE IF ndim(d[v]) = 4
       THEN IF mr = "fabm0d" THEN Ok(NdEntry(squeeze(d[v])))
            ELSE StoredLastSlice(er, v)
  ELSE IF ndim(d[v]) = 3
       THEN IF mr = "fabm0d" THEN Ok(NdEntry(squeeze(d[v])))
            ELSE LET sq == squeeze(d[v])
                 IN  IF ndim(sq) = 0 THEN Raise("IndexError") ELSE ToFloat(LastRow(sq))
  ELSE Raise("RuntimeError")

\* the body of the try statement
Extract(mr, k, d, er, v) ==
  IF v = "dates" THEN ExtractDates(d)
  ELSE IF k = "expected" /\ mr = "gotm" THEN ExtractDepth(d, v)
  ELSE ExtractByRank(mr, d, er, v)

\* NumpyEncoder / json.dump of one entry
Encode(entry) ==
  CASE entry.type = "list" -> Ok([json |-> "array", items |-> entry.items])
    [] entry.type = "float" -> Ok([json |-> "number", val |-> entry.val])
    [] entry.type = "ndarray" ->
         \* [float(v) for v in obj.tolist()]
         IF Len(entry.shape) = 1 THEN Ok([json |-> "array", items |-> entry.flat])
         ELSE Raise("TypeError")

(***************************************************************************)
(* The script, run once and then once more with one field left out.        *)
(***************************************************************************)
NoDrop == [key |-> "none", pos |-> 0]

InitScript(mr, d) ==
  /\ model_run = mr
  /\ data = d
  /\ run = 1
  /\ x_pc = "next_key"
  /\ todo = data_dict(mr)
  /\ key = "none"
  /\ items = <<>>
  /\ idx = 0
  /\ expected_results = <<>>
  /\ log = <<>>
  /\ files = <<>>
  /\ dropped = NoDrop
  /\ run1_files = <<>>
  /\ run1_log = <<>>
  /\ KernelIdle
  /\ GenIdle
  /\ VerifyIdle

Init ==
  \E mr \in {"gotm", "fabm0d"} :
    \E status \in [FieldNames(mr) -> Statuses(mr)], hasTime \in BOOLEAN :
      InitScript(mr, Dataset(mr, status, hasTime, GotmGrid))

InitDepth ==
  \E g \in MonotoneGrids :
    InitScript("gotm", Dataset("gotm", [v \in FieldNames("gotm") |-> "rank4"], TRUE, g))

\* for key, items in data_dict.items(): open the dataset, expected_results = {}
OpenKey ==
  /\ x_pc = "next_key"
  /\ todo # <<>>
  /\ key' = Head(todo).key
  /\ items' = Head(todo).items
  /\ todo' = Tail(todo)
  /\ idx' = 1
  /\ expected_results' = <<>>
  /\ x_pc' = "fields"
  /\ UNCHANGED <<model_run, data, run, log, files, dropped, run1_files, run1_log,
                 kernelVars, genVars, verifyVars>>

\* a variant in which an exception ends the loop over the fields
ExtractField_abort ==
  /\ x_pc = "fields"
  /\ idx <= Len(items)
  /\ LET v == items[idx]
         r == Extract(model_run, key, data, expected_results, v)
     IN  IF r.ok
         THEN /\ expected_results' = (v :> r.val) @@ expected_results
              /\ idx' = idx + 1
              /\ UNCHANGED log
         ELSE /\ log' = Append(log, [key |-> key, v |-> v, exc |-> r.exc])
              /\ idx' = Len(items) + 1
              /\ UNCHANGED expected_results
  /\ UNCHANGED <<model_run, data, run, x_pc, todo, key, items, files, dropped,
                 run1_files, run1_log, kernelVars, genVars, verifyVars>>

\* one pass of `for v in items`: the try block and its except clause
ExtractField ==
  /\ x_pc = "fields"
  /\ idx <= Len(items)
  /\ LET v == items[idx]
         r == Extract(model_run, key, data, expected_results, v)
     IN  IF r.ok
         THEN /\ expected_results' = (v :> r.val) @@ expected_results
              /\ UNCHANGED log
         ELSE /\ log' = Append(log, [key |-> key, v |-> v, exc |-> r.exc])
              /\ UNCHANGED expected_results
  /\ idx' = idx + 1
  /\ UNCHANGED <<model_run, data, run, x_pc, todo, key, items, files, dropped,
                 run1_files, run1_log, kernelVars, genVars, verifyVars>>

\* with open(.../{key}.json, 'w'): json.dump(expected_results, f, cls=NumpyEncoder)
Dump ==
  /\ x_pc = "fields"
  /\ idx > Len(items)
  /\ LET enc == [v \in DOMAIN expected_results |-> Encode(expected_results[v])]
     IN  IF \A v \in DOMAIN enc : enc[v].ok
         THEN /\ files' = (key :> [complete |-> TRUE,
                                   doc |-> [v \in DOMAIN enc |-> enc[v].val]]) @@ files
              /\ x_pc' = "next_key"
         ELSE \* the TypeError leaves the script; the file is left cut short
              /\ files' = (key :> [complete |-> FALSE]) @@ files
              /\ x_pc' = "crashed"
  /\ UNCHANGED <<model_run, data, run, todo, key, items, idx, expected_results, log,
                 dropped, run1_files, run1_log, kernelVars, genVars, verifyVars>>

\* data_dict with the field at position d.pos of key d.key left out
RemoveAt(q, n) == SubSeq(q, 1, n - 1) \o SubSeq(q, n + 1, Len(q))
DataDictWithout(mr, d) ==
  [n \in 1..Len(data_dict(mr)) |->
     IF data_dict(mr)[n].key = d.key
     THEN [key |-> d.key, items |-> RemoveAt(data_dict(mr)[n].items, d.pos)]
     ELSE data_dict(mr)[n]]

Drops(mr) ==
  {NoDrop} \cup
  UNION {{[key |-> data_dict(mr)[n].key, pos |-> m] : m \in 1..Len(data_dict(mr)[n].items)} :
           n \in 1..Len(data_dict(mr))}

\* the script has ended; it is run again on the same dataset, one field left out
Rerun ==
  /\ x_pc = "next_key"
  /\ todo = <<>>
  /\ run = 1
  /\ \E d \in Drops(model_run) :
       /\ dropped' = d
       /\ todo' = DataDictWithout(model_run, d)
  /\ run' = 2
  /\ run1_files' = files
  /\ run1_log' = log
  /\ log' = <<>>
  /\ UNCHANGED <<model_run, data, x_pc, key, items, idx, expected_results, files,
                 kernelVars, genVars, verifyVars>>

Next == OpenKey \/ ExtractField \/ Dump \/ Rerun

Spec == Init /\ [][Next]_vars

SpecDepth == InitDepth /\ [][Next]_vars

(***************************************************************************)
(* Properties of the field extraction.                                     *)
(***************************************************************************)
ItemsOf(mr, k) ==
  LET n == CHOOSE m \in 1..Len(data_dict(mr)) : data_dict(mr)[m].key = k
  IN  data_dict(mr)[n].items

MessagesFor(lg, k) == {n \in 1..Len(lg) : lg[n].key = k}

SecondRunEnded == run = 2 /\ x_pc = "next_key" /\ todo = <<>>

\* key k: run 1 failed on exactly one field, and run 2 left that field out
OneFailureLeftOut(k) ==
  /\ SecondRunEnded
  /\ k \in DOMAIN run1_files
  /\ Cardinality(MessagesFor(run1_log, k)) = 1
  /\ dropped.key = k
  /\ \E n \in MessagesFor(run1_log, k) : run1_log[n].v = ItemsOf(model_run, k)[dropped.pos]

\* C1: while a batch is processed every field already visited is either in the
\* result set or reported, never both; and when exactly one field of a key's
\* batch of N failed, the persisted result set has N-1 entries, the fields that
\* did not fail, each equal to its entry in a run without the failing field.
C1_BestEffortPerField ==
  /\ x_pc = "fields" =>
       /\ idx <= Len(items) + 1
       /\ DOMAIN expected_results \cup {log[n].v : n \in MessagesFor(log, key)}
            = {items[n] : n \in 1..(idx - 1)}
       /\ DOMAIN expected_results \cap {log[n].v : n \in MessagesFor(log, key)} = {}
  /\ \A k \in {"expected", "expected_state"} :
       OneFailureLeftOut(k) =>
         LET batch == ItemsOf(model_run, k)
             failed == {run1_log[n].v : n \in MessagesFor(run1_log, k)}
         IN  /\ run1_files[k].complete
             /\ files[k].complete
             /\ Cardinality(DOMAIN run1_files[k].doc) = Len(batch) - 1
             /\ DOMAIN run1_files[k].doc = Range(batch) \ failed
             /\ run1_files[k].doc = files[k].doc

\* one field in the middle of a batch failed, the others were persisted
C1_Witness ==
  \E k \in {"expected", "expected_state"} :
    /\ OneFailureLeftOut(k)
    /\ dropped.pos < Len(ItemsOf(model_run, k))
    /\ Cardinality(DOMAIN run1_files[k].doc) >= 2
    /\ \E v \in DOMAIN files[k].doc : files[k].doc[v].json = "array"

\* C3: a rank-4 field extracted under the rank rule is in the result set once
\* visited: with singleton axes dropped in a fabm0d run, as the final time
\* step's slice in a gotm run (key expected_state).
C3_Rank4Reduction ==
  x_pc = "fields" =>
    \A n \in 1..(idx - 1) :
      LET v == items[n]
      IN  (/\ v # "dates"
           /\ ~(key = "expected" /\ model_run = "gotm")
           /\ v \in DOMAIN data
           /\ Len(data[v].shape) = 4) =>
            /\ v \in DOMAIN expected_results
            /\ expected_results[v].type = "ndarray"
            /\ IF model_run = "fabm0d"
               THEN /\ expected_results[v].shape = SelectSeq(data[v].shape, LAMBDA dim : dim # 1)
                    /\ expected_results[v].flat = data[v].flat
               ELSE LET nt == data[v].shape[1]
                        nz == data[v].shape[2]
                    IN  /\ expected_results[v].shape = Tail(data[v].shape)
                        /\ expected_results[v].flat =
                             [m \in 1..nz |-> data[v].flat[(nt - 1) * nz + m]]

\* the layer centres, the last interface and the field of time step i
ZAt(i) == [m \in 1..NumLayers |-> data["z"].flat[(i - 1) * NumLayers + m]]
QueryAt(i) == data["zi"].flat[i * (NumLayers + 1)]
FieldAt(v, i) == [m \in 1..NumLayers |-> data[v].flat[(i - 1) * NumLayers + m]]

\* rational val lies on the straight line through (x1, f1) and (x2, f2) at x
OnLine(val, x, x1, f1, x2, f2) ==
  (val[1] - f1 * val[2]) * (x2 - x1) = (f2 - f1) * (x - x1) * val[2]

\* the value the claim gives the query q on layer centres r with field f
AsClaimed(val, q, r, f) ==
  LET lo == CHOOSE m \in DOMAIN r : \A m2 \in DOMAIN r : r[m] <= r[m2]
      hi == CHOOSE m \in DOMAIN r : \A m2 \in DOMAIN r : r[m] >= r[m2]
  IN  IF q < r[lo] THEN val = RatInt(f[lo])
      ELSE IF q > r[hi] THEN val = RatInt(f[hi])
      ELSE \A m \in 1..(Len(r) - 1) :
             ((r[m] <= q /\ q <= r[m + 1]) \/ (r[m + 1] <= q /\ q <= r[m]))
               => OnLine(val, q, r[m], f[m], r[m + 1], f[m + 1])

VisitedDepthFields ==
  IF x_pc = "fields" /\ key = "expected" /\ model_run = "gotm"
  THEN {items[n] : n \in 1..(idx - 1)} \ {"dates"}
  ELSE {}

\* C8: in the depth-interpolate rule, for every time step whose layer centres
\* are monotone in either direction, the emitted value is the field at the
\* nearest end of z[i,:] when the query depth is outside its range, and the
\* linear interpolation between the bracketing layers when it is inside.
C8_DepthInterpolation ==
  \A v \in VisitedDepthFields :
    /\ v \in DOMAIN expected_results
    /\ expected_results[v].type = "list"
    /\ Len(expected_results[v].items) = NumTimes
    /\ \A i \in 1..NumTimes :
         (StrictlyIncreasing(ZAt(i)) \/ StrictlyDecreasing(ZAt(i))) =>
           AsClaimed(expected_results[v].items[i], QueryAt(i), ZAt(i), FieldAt(v, i))

\* the same for time steps whose layer centres increase (numpy.interp's case)
DepthInterpolationIncreasing ==
  \A v \in VisitedDepthFields :
    /\ v \in DOMAIN expected_results
    /\ expected_results[v].type = "list"
    /\ Len(expected_results[v].items) = NumTimes
    /\ \A i \in 1..NumTimes :
         StrictlyIncreasing(ZAt(i)) =>
           AsClaimed(expected_results[v].items[i], QueryAt(i), ZAt(i), FieldAt(v, i))

\* time step i has increasing layer centres below or at the last interface
LastInterfaceAbove(i) ==
  /\ StrictlyIncreasing(ZAt(i))
  /\ QueryAt(i) >= ZAt(i)[NumLayers]

\* C11: in the depth-interpolate rule (depth = 0), a visited field has exactly
\* one emitted value per time step, and at every time step whose layer centres
\* z[i,:] are strictly increasing with zi[i,-1] >= z[i,-1] the emitted value is
\* the field of the last layer, var[i, last], never a blend of two layers.
C11_LastLayerValue ==
  \A v \in VisitedDepthFields :
    /\ v \in DOMAIN expected_results
    /\ expected_results[v].type = "list"
    /\ Len(expected_results[v].items) = NumTimes
    /\ \A i \in 1..NumTimes :
         LastInterfaceAbove(i) =>
           expected_results[v].items[i] = RatInt(FieldAt(v, i)[NumLayers])

\* a field has been emitted on a grid whose last interface sits on the last
\* layer centre at one time step and strictly above it at another
C11_Witness ==
  /\ VisitedDepthFields # {}
  /\ \A i \in 1..NumTimes : LastInterfaceAbove(i)
  /\ \E i \in 1..NumTimes : QueryAt(i) = ZAt(i)[NumLayers]
  /\ \E i \in 1..NumTimes : QueryAt(i) > ZAt(i)[NumLayers]
  /\ \A v \in VisitedDepthFields :
       /\ v \in DOMAIN expected_results
       /\ \A i \in 1..NumTimes :
            expected_results[v].items[i] = RatInt(FieldAt(v, i)[NumLayers])

====
